---- MODULE Spec2Model ----
(***************************************************************************)
(* Model of svd2ral (src/src/lib.rs).                                      *)
(*                                                                         *)
(* Three parts, each with its own specification over the same variables:   *)
(*   - SpecProto / SpecSafe: the take/release/steal/conjure protocol that  *)
(*     write_peripheral_instance emits for every peripheral instance,      *)
(*     executed by a normal context and preempting interrupt handlers;     *)
(*   - SpecGen: generate(), from the parsed tree to the output directory;  *)
(*   - SpecMask: FinalFieldInfo::generate_code, the mask of one field.     *)
(***************************************************************************)
EXTENDS Integers, Sequences, FiniteSets, TLC

VARIABLES
    \* ---- emitted ownership protocol (lib.rs 327-394) ----
    TAKEN,      \* [Insts -> BOOLEAN]: static mut {name}_TAKEN
    primask,    \* TRUE when interrupts are disabled (inside interrupt::free)
    pc,         \* [Ctx -> position of the context in the emitted function]
    op,         \* [Ctx -> the call in progress: instance, handle argument, saved primask]
    ret,        \* [Ctx -> value the call in progress is about to return]
    held,       \* [Ctx -> [HandleKinds -> Nat]]: Instance values owned by the context
    hist,       \* [Insts -> the last two changes of the flag: who made them] (history)
    panicked,   \* TRUE once panic!() ran: the firmware has aborted
    \* ---- generate() (lib.rs 83-174) ----
    tree,       \* the parsed device: sequence of raw peripherals
    ignore,     \* config.ignore
    genPc,      \* position of generate()
    device,     \* result of convert(): peripherals, instances
    fs,         \* the soc directory: [dirs, files: path -> content]
    fs0,        \* the soc directory before generate() was called (history)
    pidx,       \* loop index over device.peripherals
    iidx,       \* loop index over device.instances
    peripheral_modules,
    instance_modules,
    instance_names,
    \* ---- FinalFieldInfo::generate_code (lib.rs 419-460) ----
    field,      \* the field: bit_range.offset, bit_range.width, register bit_width
    maskPc,     \* "input" | "generated" | "panic" | "compiled" | "compile_error"
    maskLit,    \* the mask literal written by the generator (set of bit positions)
    maskConst   \* value of the emitted constant `mask` once compiled

protoVars == <<TAKEN, primask, pc, op, ret, held, hist, panicked>>
genVars == <<tree, ignore, genPc, device, fs, fs0, pidx, iidx,
             peripheral_modules, instance_modules, instance_names>>
maskVars == <<field, maskPc, maskLit, maskConst>>
vars == <<protoVars, genVars, maskVars>>

(***************************************************************************)
(* Bounds                                                                  *)
(***************************************************************************)
\* highest interrupt priority level; context 0 is normal execution
MaxPrio == 1
\* Instance values in existence at one time, over all contexts (a take() that finds
\* the flag set creates none and is always admitted)
MaxHandles == 2

(***************************************************************************)
(* Part 1: the emitted ownership protocol                                  *)
(***************************************************************************)
\* the two instances of the spec's end-to-end example; they share one shape,
\* hence one Instance type, so a handle of one can be passed to the other's release()
Insts == {"GPIOA", "GPIOB"}

\* INSTANCE.addr of each emitted module: instance.base_address
BaseAddr(i) ==
    CASE i = "GPIOA" -> 1073809408
      [] i = "GPIOB" -> 1073810432
      [] i = "GPIOC" -> 1073811456
      [] OTHER -> 1073812480

Ctx == 0..MaxPrio

\* how an Instance value came into existence: returned by take(), or by one of the
\* unsafe functions steal() and conjure()
Vias == {"take", "unsafe"}
HandleKinds == Insts \X Vias
NoHandle == <<"none", "none">>
HandleAddr(k) == BaseAddr(k[1])

NoOp == [inst |-> "none", arg |-> NoHandle, saved |-> FALSE]

\* Instance values owned by context c
HeldBy(c) ==
    Cardinality({x \in HandleKinds \X (1..MaxHandles) : x[2] <= held[c][x[1]]})

\* a take() in progress that may return a handle: it is counted from its entry
InFlight(c) ==
    IF pc[c] \in {"take_check", "take_set"} \/ (pc[c] = "take_exit" /\ ret[c] = "Some")
    THEN 1 ELSE 0

\* Instance values in existence or about to be, over the contexts S
TotalHandles(S) ==
    Cardinality({x \in S \X HandleKinds \X (1..MaxHandles) : x[3] <= held[x[1]][x[2]]})
        + Cardinality({c \in S : InFlight(c) = 1})

\* the history of instance i after event e
Record(i, e) == [hist EXCEPT ![i] = <<@[2], e>>]

Give(c, k) == [held EXCEPT ![c][k] = @ + 1]
Consume(c, k) == [held EXCEPT ![c][k] = @ - 1]

\* a context executes only while no handler of higher priority is active
Running(c) ==
    /\ ~panicked
    /\ pc[c] # "inactive"
    /\ \A d \in Ctx : d > c => pc[d] = "inactive"

ProtoInit ==
    /\ TAKEN = [i \in Insts |-> FALSE]
    /\ primask = FALSE
    /\ pc = [c \in Ctx |-> IF c = 0 THEN "idle" ELSE "inactive"]
    /\ op = [c \in Ctx |-> NoOp]
    /\ ret = [c \in Ctx |-> "none"]
    /\ held = [c \in Ctx |-> [k \in HandleKinds |-> 0]]
    /\ hist = [i \in Insts |-> <<"fresh", "fresh">>]
    /\ panicked = FALSE

\* an interrupt of priority c is taken: only while interrupts are enabled
IrqEntry(c) ==
    /\ c > 0
    /\ ~panicked
    /\ ~primask
    /\ \A d \in Ctx : d >= c => pc[d] = "inactive"
    /\ pc' = [pc EXCEPT ![c] = "idle"]
    /\ UNCHANGED <<TAKEN, primask, op, ret, held, hist, panicked>>
    /\ UNCHANGED <<genVars, maskVars>>

\* the handler returns; what it holds stays in its statics
IrqReturn(c) ==
    /\ c > 0
    /\ Running(c)
    /\ pc[c] = "idle"
    /\ pc' = [pc EXCEPT ![c] = "inactive"]
    /\ UNCHANGED <<TAKEN, primask, op, ret, held, hist, panicked>>
    /\ UNCHANGED <<genVars, maskVars>>

\* faulty variant: take() emitted without the interrupt::free wrapper
TakeEnterNoCs(c, i) ==
    /\ Running(c)
    /\ pc[c] = "idle"
    /\ TotalHandles(Ctx) < MaxHandles \/ TAKEN[i]
    /\ pc' = [pc EXCEPT ![c] = "take_check"]
    /\ op' = [op EXCEPT ![c] = [inst |-> i, arg |-> NoHandle, saved |-> primask]]
    /\ UNCHANGED <<TAKEN, primask, ret, held, hist, panicked>>
    /\ UNCHANGED <<genVars, maskVars>>

\* take(): interrupt::free(|_| ...) disables interrupts, remembering the old state
TakeEnter(c, i) ==
    /\ Running(c)
    /\ pc[c] = "idle"
    /\ TotalHandles(Ctx) < MaxHandles \/ TAKEN[i]
    /\ pc' = [pc EXCEPT ![c] = "take_check"]
    /\ op' = [op EXCEPT ![c] = [inst |-> i, arg |-> NoHandle, saved |-> primask]]
    /\ primask' = TRUE
    /\ UNCHANGED <<TAKEN, ret, held, hist, panicked>>
    /\ UNCHANGED <<genVars, maskVars>>

\* if {name}_TAKEN { None } else { ...
TakeCheck(c) ==
    /\ Running(c)
    /\ pc[c] = "take_check"
    /\ IF TAKEN[op[c].inst]
       THEN /\ ret' = [ret EXCEPT ![c] = "None"]
            /\ pc' = [pc EXCEPT ![c] = "take_exit"]
       ELSE /\ ret' = ret
            /\ pc' = [pc EXCEPT ![c] = "take_set"]
    /\ UNCHANGED <<TAKEN, primask, op, held, hist, panicked>>
    /\ UNCHANGED <<genVars, maskVars>>

\* {name}_TAKEN = true; Some(INSTANCE)
TakeSet(c) ==
    /\ Running(c)
    /\ pc[c] = "take_set"
    /\ TAKEN' = [TAKEN EXCEPT ![op[c].inst] = TRUE]
    /\ ret' = [ret EXCEPT ![c] = "Some"]
    /\ hist' = Record(op[c].inst, "taken")
    /\ pc' = [pc EXCEPT ![c] = "take_exit"]
    /\ UNCHANGED <<primask, op, held, panicked>>
    /\ UNCHANGED <<genVars, maskVars>>

\* the closure returns: interrupt::free restores the interrupt state, take() returns
TakeExit(c) ==
    /\ Running(c)
    /\ pc[c] = "take_exit"
    /\ primask' = op[c].saved
    /\ held' = IF ret[c] = "Some" THEN Give(c, <<op[c].inst, "take">>) ELSE held
    /\ pc' = [pc EXCEPT ![c] = "idle"]
    /\ op' = [op EXCEPT ![c] = NoOp]
    /\ ret' = [ret EXCEPT ![c] = "none"]
    /\ UNCHANGED <<TAKEN, hist, panicked>>
    /\ UNCHANGED <<genVars, maskVars>>

\* release(inst): the handle is moved into the call
ReleaseEnter(c, i, k) ==
    /\ Running(c)
    /\ pc[c] = "idle"
    /\ held[c][k] > 0
    /\ held' = Consume(c, k)
    /\ pc' = [pc EXCEPT ![c] = "rel_check"]
    /\ op' = [op EXCEPT ![c] = [inst |-> i, arg |-> k, saved |-> primask]]
    /\ primask' = TRUE
    /\ UNCHANGED <<TAKEN, ret, hist, panicked>>
    /\ UNCHANGED <<genVars, maskVars>>

\* faulty variant: release() that checks the flag only
ReleaseAcceptsFlagOnly(i, k) == TAKEN[i]

\* if {name}_TAKEN && inst.addr == INSTANCE.addr
ReleaseAccepts(i, k) == TAKEN[i] /\ HandleAddr(k) = BaseAddr(i)

\* ... else { panic!("Released a peripheral which was not taken") }
ReleaseCheck(c) ==
    /\ Running(c)
    /\ pc[c] = "rel_check"
    /\ IF ReleaseAccepts(op[c].inst, op[c].arg)
       THEN /\ pc' = [pc EXCEPT ![c] = "rel_clear"]
            /\ panicked' = panicked
       ELSE /\ pc' = [pc EXCEPT ![c] = "panic"]
            /\ panicked' = TRUE
    /\ UNCHANGED <<TAKEN, primask, op, ret, held, hist>>
    /\ UNCHANGED <<genVars, maskVars>>

\* faulty variant: release() that accepts the handle but leaves the flag set
ReleaseFlagAfterNoClear(i) == TAKEN

\* {name}_TAKEN = false;
ReleaseFlagAfter(i) == [TAKEN EXCEPT ![i] = FALSE]

ReleaseClear(c) ==
    /\ Running(c)
    /\ pc[c] = "rel_clear"
    /\ TAKEN' = ReleaseFlagAfter(op[c].inst)
    /\ hist' = Record(op[c].inst, "released")
    /\ pc' = [pc EXCEPT ![c] = "rel_exit"]
    /\ UNCHANGED <<primask, op, ret, held, panicked>>
    /\ UNCHANGED <<genVars, maskVars>>

ReleaseExit(c) ==
    /\ Running(c)
    /\ pc[c] = "rel_exit"
    /\ primask' = op[c].saved
    /\ pc' = [pc EXCEPT ![c] = "idle"]
    /\ op' = [op EXCEPT ![c] = NoOp]
    /\ UNCHANGED <<TAKEN, ret, held, hist, panicked>>
    /\ UNCHANGED <<genVars, maskVars>>

\* faulty variant: steal() that returns the handle without marking the instance taken
StealFlagAfterNoSet(i) == TAKEN

\* steal(): {name}_TAKEN = true
StealFlagAfter(i) == [TAKEN EXCEPT ![i] = TRUE]

\* steal(): no critical section, one store, returns INSTANCE
Steal(c, i) ==
    /\ Running(c)
    /\ pc[c] = "idle"
    /\ TotalHandles(Ctx) < MaxHandles
    /\ TAKEN' = StealFlagAfter(i)
    /\ held' = Give(c, <<i, "unsafe">>)
    /\ hist' = Record(i, "stolen")
    /\ UNCHANGED <<primask, pc, op, ret, panicked>>
    /\ UNCHANGED <<genVars, maskVars>>

\* conjure(): returns INSTANCE, the flag is not touched
Conjure(c, i) ==
    /\ Running(c)
    /\ pc[c] = "idle"
    /\ TotalHandles(Ctx) < MaxHandles
    /\ held' = Give(c, <<i, "unsafe">>)
    /\ UNCHANGED <<TAKEN, primask, pc, op, ret, hist, panicked>>
    /\ UNCHANGED <<genVars, maskVars>>

(***************************************************************************)
(* Part 2: FinalFieldInfo::generate_code, the mask of a field              *)
(*                                                                         *)
(* 64-bit values are sets of bit positions (bit b set <=> b in the set),   *)
(* so that every width up to 64 is represented exactly.                    *)
(***************************************************************************)
U64Bits == 0..63
U32Bits == 0..31

\* the value 2^n - 1
LowBits(n) == {b \in U64Bits : b < n}

\* 1u64 << width. A shift by 64 overflows: a build with overflow checks panics,
\* a build without them masks the shift amount to 6 bits
Shl1U64(width) ==
    IF width < 64
    THEN {[panic |-> FALSE, bits |-> {width}]}
    ELSE {[panic |-> TRUE, bits |-> {}], [panic |-> FALSE, bits |-> {width % 64}]}

\* x - 1 for a u64 with exactly one bit set (never 0 here)
Sub1(x) == LET k == CHOOSE b \in x : TRUE IN LowBits(k)

\* let mask = (1u64 << self.bit_range.width) - 1: the outcomes the build can produce
GeneratedMask(width) ==
    {IF x.panic THEN x ELSE [panic |-> FALSE, bits |-> Sub1(x.bits)] : x \in Shl1U64(width)}

\* the emitted item `pub const mask: u32 = {mask:#x} << offset;` as rustc evaluates
\* it: a literal that does not fit u32 and a shift by 32 or more are compile errors,
\* bits shifted beyond bit 31 are lost
EmittedMaskValue(lit, offset) ==
    IF (lit \ U32Bits) # {} \/ offset >= 32
    THEN [error |-> TRUE, bits |-> {}]
    ELSE [error |-> FALSE, bits |-> {b + offset : b \in lit} \cap U32Bits]

BitWidths == {8, 16, 32, 64}

Fields ==
    {[bit_width |-> bw, offset |-> o, width |-> w] :
        bw \in BitWidths, o \in U64Bits, w \in 1..64}

NoField == [bit_width |-> 0, offset |-> 0, width |-> 0]

MaskIdle ==
    /\ field = NoField
    /\ maskPc = "off"
    /\ maskLit = {}
    /\ maskConst = {}

MaskInit ==
    /\ field \in {f \in Fields : f.offset + f.width <= f.bit_width}
    /\ maskPc = "input"
    /\ maskLit = {}
    /\ maskConst = {}

\* generate_code() on a build where the shift does not panic: writes the literal
GenerateCode ==
    /\ maskPc = "input"
    /\ \E m \in GeneratedMask(field.width) :
        /\ ~m.panic
        /\ maskLit' = m.bits
    /\ maskPc' = "generated"
    /\ UNCHANGED <<field, maskConst>>
    /\ UNCHANGED <<protoVars, genVars>>

\* generate_code() on a build with overflow checks, width 64: the generator panics
GenerateCodePanics ==
    /\ maskPc = "input"
    /\ \E m \in GeneratedMask(field.width) : m.panic
    /\ maskPc' = "panic"
    /\ UNCHANGED <<field, maskLit, maskConst>>
    /\ UNCHANGED <<protoVars, genVars>>

\* the firmware crate is compiled: the constant gets its value
CompileEmitted ==
    /\ maskPc = "generated"
    /\ LET v == EmittedMaskValue(maskLit, field.offset)
       IN IF v.error
          THEN /\ maskPc' = "compile_error"
               /\ maskConst' = maskConst
          ELSE /\ maskPc' = "compiled"
               /\ maskConst' = v.bits
    /\ UNCHANGED <<field, maskLit>>
    /\ UNCHANGED <<protoVars, genVars>>

(***************************************************************************)
(* Part 3: generate()                                                      *)
(***************************************************************************)
\* peripherals of the parsed device
MaxPeripherals == 2

\* hardware names; "gpioa" and "GPIOA" differ only in case
Names == {"GPIOA", "GPIOB", "GPIOC", "gpioa"}

\* module_name: the hardware name lowercased to an identifier
Sanitize(n) ==
    CASE n = "GPIOB" -> "gpiob"
      [] n = "GPIOC" -> "gpioc"
      [] OTHER -> "gpioa"

RegODR ==
    [name |-> "ODR", access |-> "ReadWrite", bit_width |-> 32,
     fields |-> <<[name |-> "PIN0", offset |-> 0, width |-> 1]>>]

RegIDR ==
    [name |-> "IDR", access |-> "ReadOnly", bit_width |-> 32,
     fields |-> <<[name |-> "PIN0", offset |-> 0, width |-> 1],
                  [name |-> "PIN1", offset |-> 1, width |-> 1]>>]

\* a field reaching beyond its register: offset + width = 12 > 8
RegBad ==
    [name |-> "CR", access |-> "WriteOnly", bit_width |-> 8,
     fields |-> <<[name |-> "EN", offset |-> 4, width |-> 8]>>]

\* register lists of the raw peripherals
Layouts == {<<RegODR>>, <<RegODR, RegIDR>>, <<RegIDR, RegODR>>, <<RegBad>>}

RawPeripherals == [name : Names, registers : Layouts]

\* a well-formed tree: the hardware names of its peripherals are unique
WellFormedTree(t) ==
    \A j, k \in 1..Len(t) : j # k => t[j].name # t[k].name

Trees ==
    {t \in UNION {[1..n -> RawPeripherals] : n \in 1..MaxPeripherals} : WellFormedTree(t)}

\* index of the first peripheral with the layout of peripheral j: its shape
ShapeOf(t, j) == CHOOSE k \in 1..j :
    /\ t[k].registers = t[j].registers
    /\ \A m \in 1..(k - 1) : t[m].registers # t[j].registers

RECURSIVE Shapes(_, _)
Shapes(t, n) ==
    IF n = 0 THEN <<>>
    ELSE IF ShapeOf(t, n) = n
         THEN Append(Shapes(t, n - 1),
                     [name |-> t[n].name,
                      module_name |-> Sanitize(t[n].name),
                      registers |-> t[n].registers])
         ELSE Shapes(t, n - 1)

ModelInstances(t) ==
    [j \in 1..Len(t) |->
        [name |-> t[j].name,
         module_name |-> Sanitize(t[j].name),
         peripheral_module |-> Sanitize(t[ShapeOf(t, j)].name),
         base_address |-> BaseAddr(t[j].name),
         reset_values |->
            [k \in 1..Len(t[j].registers) |->
                [register |-> t[j].registers[k].name, value |-> 0]]]]

InconsistentField(t) ==
    \E j \in 1..Len(t) : \E r \in 1..Len(t[j].registers) :
        \E f \in 1..Len(t[j].registers[r].fields) :
            LET reg == t[j].registers[r]
            IN reg.fields[f].offset + reg.fields[f].width > reg.bit_width

\* identifier collision: two shapes, or two instances, with one module_name
DuplicateModuleName(t) ==
    LET sh == Shapes(t, Len(t))
        ins == ModelInstances(t)
    IN \/ \E a, b \in 1..Len(sh) : a # b /\ sh[a].module_name = sh[b].module_name
       \/ \E a, b \in 1..Len(ins) : a # b /\ ins[a].module_name = ins[b].module_name

NoDevice == [error |-> "none", peripherals |-> <<>>, instances |-> <<>>]

\* convert(): the canonical model, or the input error
Convert(t) ==
    IF InconsistentField(t)
    THEN [error |-> "InconsistentField", peripherals |-> <<>>, instances |-> <<>>]
    ELSE IF DuplicateModuleName(t)
    THEN [error |-> "DuplicateModuleName", peripherals |-> <<>>, instances |-> <<>>]
    ELSE [error |-> "none", peripherals |-> Shapes(t, Len(t)), instances |-> ModelInstances(t)]

\* properties.access_type_name()
AccessTypeName(a) ==
    CASE a = "ReadOnly" -> "RORegister"
      [] a = "WriteOnly" -> "WORegister"
      [] OTHER -> "RWRegister"

\* properties.size_type_name()
SizeTypeName(w) ==
    CASE w = 8 -> "u8"
      [] w = 16 -> "u16"
      [] w = 32 -> "u32"
      [] OTHER -> "u64"

\* the paths of the soc directory
TopMod == <<"soc", "mod">>
Metadata == <<"soc", "metadata">>
PeripheralsMod == <<"peripherals", "mod">>
InstancesMod == <<"instances", "mod">>
PeripheralFile(m) == <<"peripherals", m>>
InstanceFile(m) == <<"instances", m>>

NoLists ==
    [written |-> FALSE, PERIPHERAL_MODULES |-> <<>>,
     INSTANCE_MODULES |-> <<>>, INSTANCE_NAMES |-> <<>>]

AbsentDir == [dirs |-> {}, files |-> <<>>]

\* faulty variant: the register block with the registers in reverse order
RegisterBlockReversed(p) ==
    [k \in 1..Len(p.registers) |->
        LET r == p.registers[Len(p.registers) + 1 - k]
        IN [name |-> r.name,
            access |-> AccessTypeName(r.access),
            size |-> SizeTypeName(r.bit_width)]]

\* write_peripheral: one RegisterBlock entry pushed per register, in loop order
RegisterBlock(p) ==
    [k \in 1..Len(p.registers) |->
        [name |-> p.registers[k].name,
         access |-> AccessTypeName(p.registers[k].access),
         size |-> SizeTypeName(p.registers[k].bit_width)]]

\* write_peripheral: one ResetValues entry pushed per register, in loop order
ResetValuesType(p) ==
    [k \in 1..Len(p.registers) |->
        [name |-> p.registers[k].name, size |-> SizeTypeName(p.registers[k].bit_width)]]

\* field.generate_code(): offset constant and mask literal
FieldCode(f) ==
    [name |-> f.name, offset |-> f.offset,
     mask |-> (CHOOSE m \in GeneratedMask(f.width) : ~m.panic).bits]

\* write_peripheral: the register modules, in loop order
RegisterModules(p) ==
    [k \in 1..Len(p.registers) |->
        [name |-> p.registers[k].name,
         fields |-> [f \in 1..Len(p.registers[k].fields) |->
                        FieldCode(p.registers[k].fields[f])]]]

\* the text write_peripheral writes to peripherals/<module>.rs
WritePeripheral(p) ==
    [kind |-> "peripheral",
     name |-> p.name,
     access_types |-> {AccessTypeName(p.registers[k].access) : k \in 1..Len(p.registers)},
     register_modules |-> RegisterModules(p),
     register_block |-> RegisterBlock(p),
     reset_values |-> ResetValuesType(p)]

\* the text write_peripheral_instance writes to instances/<module>.rs
WritePeripheralInstance(inst) ==
    [kind |-> "instance",
     name |-> inst.name,
     peripheral_mod |-> inst.peripheral_module,
     register_types |-> [k \in 1..Len(inst.reset_values) |-> inst.reset_values[k].register],
     addr |-> inst.base_address,
     reset |-> [k \in 1..Len(inst.reset_values) |->
                    [register |-> inst.reset_values[k].register,
                     value |-> inst.reset_values[k].value]]]

\* a soc directory left by an earlier run
StaleDir ==
    [dirs |-> {"soc", "instances"},
     files |-> (InstanceFile("stale") :>
                    [kind |-> "instance", name |-> "STALE", peripheral_mod |-> "stale",
                     register_types |-> <<>>, addr |-> 0, reset |-> <<>>])]

GenIdle ==
    /\ tree = <<>>
    /\ ignore = {}
    /\ genPc = "off"
    /\ device = NoDevice
    /\ fs = AbsentDir
    /\ fs0 = AbsentDir
    /\ pidx = 1
    /\ iidx = 1
    /\ peripheral_modules = <<>>
    /\ instance_modules = <<>>
    /\ instance_names = <<>>

GenInit ==
    /\ tree \in Trees
    /\ ignore \in SUBSET Names
    /\ genPc = "start"
    /\ device = NoDevice
    /\ fs \in {AbsentDir, StaleDir}
    /\ fs0 = fs
    /\ pidx = 1
    /\ iidx = 1
    /\ peripheral_modules = <<>>
    /\ instance_modules = <<>>
    /\ instance_names = <<>>

\* lines 86-116: the soc directory is removed if it is there, then created with its
\* two subdirectories and four files; the header of mod.rs is written
CreateOutputTree ==
    /\ genPc = "start"
    /\ fs' = [dirs |-> {"soc", "peripherals", "instances"},
              files |-> (TopMod :> <<"peripherals", "instances", "metadata">>)
                        @@ (PeripheralsMod :> <<>>)
                        @@ (InstancesMod :> <<>>)
                        @@ (Metadata :> NoLists)]
    /\ genPc' = "convert"
    /\ UNCHANGED <<tree, ignore, device, fs0, pidx, iidx,
                   peripheral_modules, instance_modules, instance_names>>
    /\ UNCHANGED <<protoVars, maskVars>>

\* line 118: let device = crate::convert::convert(&device)
ConvertDevice ==
    /\ genPc = "convert"
    /\ device' = Convert(tree)
    /\ genPc' = IF device'.error = "none" THEN "emit" ELSE "aborted"
    /\ UNCHANGED <<tree, ignore, fs, fs0, pidx, iidx,
                   peripheral_modules, instance_modules, instance_names>>
    /\ UNCHANGED <<protoVars, maskVars>>

WithFile(path, content) == [x \in DOMAIN fs.files \cup {path} |->
                                IF x = path THEN content ELSE fs.files[x]]

\* faulty variant: the ignore list compared with the module name
IgnoredByModule(x) == \E v \in ignore : v = x.module_name

\* config.ignore.iter().any(|v| v == &peripheral.name)
Ignored(x) == \E v \in ignore : v = x.name

\* lines 124-138: one iteration of the loop over device.peripherals
EmitPeripheral ==
    /\ genPc = "emit"
    /\ pidx <= Len(device.peripherals)
    /\ LET peripheral == device.peripherals[pidx]
       IN IF Ignored(peripheral)
          THEN UNCHANGED <<fs, peripheral_modules>>
          ELSE /\ fs' = [fs EXCEPT !.files =
                            [WithFile(PeripheralFile(peripheral.module_name),
                                      WritePeripheral(peripheral))
                             EXCEPT ![PeripheralsMod] = Append(@, peripheral.module_name)]]
               /\ peripheral_modules' = Append(peripheral_modules, peripheral.module_name)
    /\ pidx' = pidx + 1
    /\ UNCHANGED <<tree, ignore, genPc, device, fs0, iidx, instance_modules, instance_names>>
    /\ UNCHANGED <<protoVars, maskVars>>

\* faulty variant: the original names pushed most recent first
PushInstanceNameFront(inst) == <<inst.name>> \o instance_names

\* instance_names.push(instance.name.clone())
PushInstanceName(inst) == Append(instance_names, inst.name)

\* lines 140-155: one iteration of the loop over device.instances
EmitInstance ==
    /\ genPc = "emit"
    /\ pidx > Len(device.peripherals)
    /\ iidx <= Len(device.instances)
    /\ LET instance == device.instances[iidx]
       IN IF Ignored(instance)
          THEN UNCHANGED <<fs, instance_modules, instance_names>>
          ELSE /\ fs' = [fs EXCEPT !.files =
                            [WithFile(InstanceFile(instance.module_name),
                                      WritePeripheralInstance(instance))
                             EXCEPT ![InstancesMod] = Append(@, instance.module_name),
                                    ![TopMod] = Append(@, instance.module_name)]]
               /\ instance_modules' = Append(instance_modules, instance.module_name)
               /\ instance_names' = PushInstanceName(instance)
    /\ iidx' = iidx + 1
    /\ UNCHANGED <<tree, ignore, genPc, device, fs0, pidx, peripheral_modules>>
    /\ UNCHANGED <<protoVars, maskVars>>

\* lines 157-173: the three lists are written to metadata.rs
WriteMetadata ==
    /\ genPc = "emit"
    /\ pidx > Len(device.peripherals)
    /\ iidx > Len(device.instances)
    /\ fs' = [fs EXCEPT !.files[Metadata] =
                [written |-> TRUE,
                 PERIPHERAL_MODULES |-> peripheral_modules,
                 INSTANCE_MODULES |-> instance_modules,
                 INSTANCE_NAMES |-> instance_names]]
    /\ genPc' = "done"
    /\ UNCHANGED <<tree, ignore, device, fs0, pidx, iidx,
                   peripheral_modules, instance_modules, instance_names>>
    /\ UNCHANGED <<protoVars, maskVars>>

(***************************************************************************)
(* Specifications                                                          *)
(***************************************************************************)
Init == ProtoInit /\ GenIdle /\ MaskIdle

Next ==
    \/ \E c \in Ctx : IrqEntry(c)
    \/ \E c \in Ctx : IrqReturn(c)
    \/ \E c \in Ctx, i \in Insts : TakeEnter(c, i)
    \/ \E c \in Ctx : TakeCheck(c)
    \/ \E c \in Ctx : TakeSet(c)
    \/ \E c \in Ctx : TakeExit(c)
    \/ \E c \in Ctx, i \in Insts, k \in HandleKinds : ReleaseEnter(c, i, k)
    \/ \E c \in Ctx : ReleaseCheck(c)
    \/ \E c \in Ctx : ReleaseClear(c)
    \/ \E c \in Ctx : ReleaseExit(c)
    \/ \E c \in Ctx, i \in Insts : Steal(c, i)
    \/ \E c \in Ctx, i \in Insts : Conjure(c, i)

\* the protocol with its four operations
Spec == Init /\ [][Next]_vars

NextSafe ==
    \/ \E c \in Ctx : IrqEntry(c)
    \/ \E c \in Ctx : IrqReturn(c)
    \/ \E c \in Ctx, i \in Insts : TakeEnter(c, i)
    \/ \E c \in Ctx : TakeCheck(c)
    \/ \E c \in Ctx : TakeSet(c)
    \/ \E c \in Ctx : TakeExit(c)
    \/ \E c \in Ctx, i \in Insts, k \in HandleKinds : ReleaseEnter(c, i, k)
    \/ \E c \in Ctx : ReleaseCheck(c)
    \/ \E c \in Ctx : ReleaseClear(c)
    \/ \E c \in Ctx : ReleaseExit(c)

\* the protocol used through take() and release() only
SpecSafe == Init /\ [][NextSafe]_vars

InitGen == ProtoInit /\ GenInit /\ MaskIdle

NextGen ==
    \/ CreateOutputTree
    \/ ConvertDevice
    \/ EmitPeripheral
    \/ EmitInstance
    \/ WriteMetadata

\* one run of generate()
SpecGen == InitGen /\ [][NextGen]_vars

InitMask == ProtoInit /\ GenIdle /\ MaskInit

NextMask ==
    \/ GenerateCode
    \/ GenerateCodePanics
    \/ CompileEmitted

\* one field through generate_code and the compiler
SpecMask == InitMask /\ [][NextMask]_vars

(***************************************************************************)
(* Claims about the ownership protocol                                     *)
(***************************************************************************)
\* handles of instance i returned by take() and not passed to release() since
LiveTakeHandles(i) ==
    Cardinality({x \in Ctx \X (1..MaxHandles) : x[2] <= held[x[1]][<<i, "take">>]})

\* context c leaves position p in this step
Leaves(c, p) == pc[c] = p /\ pc'[c] # p

\* C1: using take() and release() from normal execution and from preempting interrupt
\* handlers, at most one handle returned by take() is live per instance at any time,
\* and no other context moves between the flag check and the flag set of a take()
C1_AtMostOneLiveHandle ==
    /\ [](\A i \in Insts : LiveTakeHandles(i) <= 1)
    /\ [][\A c \in Ctx : pc[c] = "take_set" => \A d \in Ctx \ {c} : pc'[d] = pc[d]]_vars

\* an interrupt handler called take() while normal execution held the handle, and got None
C1_Witness ==
    \E i \in Insts :
        /\ held[0][<<i, "take">>] = 1
        /\ pc[1] = "take_exit"
        /\ op[1].inst = i
        /\ ret[1] = "None"

\* C2: after a successful take() a second take() of the instance with no release() in
\* between returns None and leaves the flag set; release() of the handle take() returned
\* clears the flag, and the next take() succeeds with the handle of the instance's address
C2_TakeReleaseCycle ==
    [][\A c \in Ctx :
        /\ (Leaves(c, "take_check") /\ hist[op[c].inst][2] = "taken")
            => (pc'[c] = "take_exit" /\ ret'[c] = "None" /\ TAKEN'[op[c].inst])
        /\ (Leaves(c, "rel_check") /\ hist[op[c].inst][2] = "taken"
                /\ op[c].arg = <<op[c].inst, "take">>)
            => (pc'[c] = "rel_clear" /\ ~panicked')
        /\ Leaves(c, "rel_clear") => ~TAKEN'[op[c].inst]
        /\ (Leaves(c, "take_check") /\ hist[op[c].inst][2] = "released")
            => pc'[c] = "take_set"
        /\ Leaves(c, "take_set") => (ret'[c] = "Some" /\ TAKEN'[op[c].inst])
        /\ (Leaves(c, "take_exit") /\ ret[c] = "Some")
            => /\ held'[c][<<op[c].inst, "take">>] = held[c][<<op[c].inst, "take">>] + 1
               /\ HandleAddr(<<op[c].inst, "take">>) = BaseAddr(op[c].inst)
      ]_vars

\* a take() succeeded after a release(), and the take() after it returns None
C2_Witness ==
    \E c \in Ctx :
        /\ pc[c] = "take_exit"
        /\ ret[c] = "None"
        /\ hist[op[c].inst] = <<"released", "taken">>
        /\ LiveTakeHandles(op[c].inst) = 1

\* C3 as claimed: release() of a handle that take() of this instance did not return, or
\* of another instance's handle, or while the flag is clear, panics and leaves the flag
C3_ReleaseOfUntakenPanics ==
    [][\A c \in Ctx :
        (Leaves(c, "rel_check")
            /\ (op[c].arg[2] # "take" \/ op[c].arg[1] # op[c].inst \/ ~TAKEN[op[c].inst]))
        => (panicked' /\ TAKEN' = TAKEN)
      ]_vars

\* C3 amended: release() panics and leaves the flag unchanged exactly when the flag is
\* clear or the handle's address differs from the instance's; a handle with the
\* instance's address is accepted while the flag is set, however it was obtained
C3_ReleasePanicsOnFlagOrAddress ==
    [][\A c \in Ctx :
        Leaves(c, "rel_check") =>
            IF ~TAKEN[op[c].inst] \/ HandleAddr(op[c].arg) # BaseAddr(op[c].inst)
            THEN panicked' /\ pc'[c] = "panic" /\ TAKEN' = TAKEN
            ELSE ~panicked' /\ pc'[c] = "rel_clear"
      ]_vars

\* the handle of another instance was released while the flag was set: panic, flag kept
C3_Witness ==
    \E c \in Ctx :
        /\ panicked
        /\ pc[c] = "panic"
        /\ op[c].arg[1] # op[c].inst
        /\ TAKEN[op[c].inst]

\* C4: steal() returns the handle of the instance and leaves the flag set whatever the
\* flag was, and a take() after it, before any release(), returns None
C4_StealLeavesFlagSet ==
    [][\A c \in Ctx :
        /\ \A i \in Insts :
            (hist'[i] # hist[i] /\ hist'[i][2] = "stolen" /\ Running(c) /\ pc[c] = "idle")
            => /\ TAKEN'[i]
               /\ held'[c][<<i, "unsafe">>] = held[c][<<i, "unsafe">>] + 1
               /\ HandleAddr(<<i, "unsafe">>) = BaseAddr(i)
        /\ (Leaves(c, "take_check") /\ hist[op[c].inst][2] = "stolen")
            => (pc'[c] = "take_exit" /\ ret'[c] = "None" /\ TAKEN'[op[c].inst])
      ]_vars

\* steal() ran on an instance that was already taken, and a later take() returns None
C4_Witness ==
    \E c \in Ctx :
        /\ pc[c] = "take_exit"
        /\ ret[c] = "None"
        /\ hist[op[c].inst] = <<"taken", "stolen">>
        /\ \E d \in Ctx : held[d][<<op[c].inst, "unsafe">>] = 1

(***************************************************************************)
(* Claims about generate_code                                              *)
(***************************************************************************)
\* ((1 << width) - 1) << offset in exact arithmetic
ExactMask(width, offset) == {b \in U64Bits : offset <= b /\ b < offset + width}

\* C6: for every field with offset + width <= bit_width, the emitted mask constant
\* evaluates to exactly ((1 << width) - 1) << offset, also for width 32 and 64 and for
\* registers wider than 32 bits: the generator does not fail and the constant compiles
C6_MaskIsExact ==
    /\ maskPc # "panic"
    /\ maskPc # "compile_error"
    /\ maskPc = "compiled" => maskConst = ExactMask(field.width, field.offset)

(***************************************************************************)
(* Claims about generate()                                                 *)
(***************************************************************************)
Count(seq, x) == Cardinality({k \in 1..Len(seq) : seq[k] = x})

OriginalNames(seq) == [k \in 1..Len(seq) |-> seq[k].name]
ModuleNames(seq) == [k \in 1..Len(seq) |-> seq[k].module_name]

NotIgnored(x) == x.name \notin ignore

ModuleFiles(dir) == {path \in DOMAIN fs.files : path[1] = dir /\ path[2] # "mod"}

Lists == fs.files[Metadata]

C7_InputErrorLeavesTreeUntouched ==
    genPc = "aborted" => fs = fs0

\* C8: the three lists are written only once every shape and instance has been emitted,
\* and list the emitted ones in the device model's order; entry i of INSTANCE_MODULES
\* and of INSTANCE_NAMES are of the same instance
C8_ListsAfterEmission ==
    /\ fs.dirs # {} /\ Metadata \in DOMAIN fs.files /\ Lists.written =>
        /\ pidx > Len(device.peripherals)
        /\ iidx > Len(device.instances)
        /\ Lists.PERIPHERAL_MODULES = ModuleNames(SelectSeq(device.peripherals, NotIgnored))
        /\ Lists.INSTANCE_MODULES = ModuleNames(SelectSeq(device.instances, NotIgnored))
        /\ Lists.INSTANCE_NAMES = OriginalNames(SelectSeq(device.instances, NotIgnored))
        /\ Lists.PERIPHERAL_MODULES = fs.files[PeripheralsMod]
        /\ Lists.INSTANCE_MODULES = fs.files[InstancesMod]
        /\ Len(Lists.INSTANCE_MODULES) = Len(Lists.INSTANCE_NAMES)
        /\ \A k \in 1..Len(Lists.INSTANCE_NAMES) :
            fs.files[InstanceFile(Lists.INSTANCE_MODULES[k])].name = Lists.INSTANCE_NAMES[k]
    /\ genPc = "done" => Lists.written

\* the lists of a run that emitted two shapes and two instances
C8_Witness ==
    /\ genPc = "done"
    /\ Len(Lists.PERIPHERAL_MODULES) = 2
    /\ Len(Lists.INSTANCE_NAMES) = 2

RegisterNames(regs) == [k \in 1..Len(regs) |-> regs[k].name]

\* C9: the members of the emitted RegisterBlock and ResetValues are the shape's
\* registers in their order, and the reset table of every emitted instance lists the
\* registers of its peripheral in the order of the shape's register block
C9_RegisterOrderPreserved ==
    genPc \in {"emit", "done"} =>
        /\ \A j \in 1..Len(tree) :
            LET shape == tree[ShapeOf(tree, j)]
                pf == PeripheralFile(Sanitize(shape.name))
                ifile == InstanceFile(Sanitize(tree[j].name))
            IN /\ pf \in DOMAIN fs.files =>
                    /\ RegisterNames(fs.files[pf].register_block) = RegisterNames(shape.registers)
                    /\ RegisterNames(fs.files[pf].reset_values) = RegisterNames(shape.registers)
                    /\ RegisterNames(fs.files[pf].register_modules) = RegisterNames(shape.registers)
               /\ ifile \in DOMAIN fs.files =>
                    /\ [k \in 1..Len(fs.files[ifile].reset) |-> fs.files[ifile].reset[k].register]
                        = RegisterNames(tree[j].registers)
                    /\ pf \in DOMAIN fs.files =>
                        [k \in 1..Len(fs.files[ifile].reset) |-> fs.files[ifile].reset[k].register]
                            = RegisterNames(fs.files[pf].register_block)

\* a shape of two registers emitted together with an instance of it
C9_Witness ==
    /\ genPc = "done"
    /\ \E j \in 1..Len(device.instances) :
        LET x == device.instances[j]
        IN /\ InstanceFile(x.module_name) \in DOMAIN fs.files
           /\ PeripheralFile(x.peripheral_module) \in DOMAIN fs.files
           /\ Len(fs.files[PeripheralFile(x.peripheral_module)].register_block) = 2
           /\ Len(fs.files[InstanceFile(x.module_name)].reset) = 2

\* C10: every emitted instance re-exports from a peripheral module that was emitted and
\* is listed in the peripherals index and in PERIPHERAL_MODULES
C10_ReferentialIntegrity ==
    genPc = "done" =>
        \A path \in ModuleFiles("instances") :
            LET m == fs.files[path].peripheral_mod
            IN /\ PeripheralFile(m) \in DOMAIN fs.files
               /\ Count(fs.files[PeripheralsMod], m) = 1
               /\ Count(Lists.PERIPHERAL_MODULES, m) = 1

====
